---- MODULE Spec2Model ----
(***************************************************************************)
(* simplearrayhash: a static open-addressing hash table for byte-string    *)
(* keys (src/src/lib.rs: Table, ceil_two, hash_key) and its two adapters,  *)
(* HashMap (src/src/map.rs) and HashSet (src/src/set.rs).                  *)
(*                                                                         *)
(* Indices are 0-based as in the source: a Vec of length c is a function   *)
(* with domain 0..c-1; the byte buffer is a sequence addressed through     *)
(* get_bytes, which turns a 0-based half-open range into a slice.          *)
(***************************************************************************)
EXTENDS Integers, Sequences, FiniteSets, TLC

\* ------------------------------------------------------------------ bounds

\* Largest number of input records/keys handed to a constructor.
MaxKeys == 3

\* Hash values range over 0..MaxHash (hash_key returns a usize of which only
\* the bits under capacity_mask are ever read).
MaxHash == 3

\* Largest key count for which the capacity computation alone is explored.
MaxCount == 64

\* -------------------------------------------------------- program constants

\* const MAX_LOAD_FACTOR: f64 = 0.8, kept as the fraction 4/5.
MAX_LOAD_FACTOR_NUM == 4
MAX_LOAD_FACTOR_DEN == 5

\* const WORD_BITS: usize = size_of::<usize>() * 8 on a 64-bit target.
WORD_BITS == 64

\* ------------------------------------------------------------ input domains

\* Byte-string keys: the empty key, two one-byte keys, and a key that is the
\* concatenation of the other two (so that neighbouring entries of the byte
\* buffer can spell another key).
KeyUniverse == { << >>, <<1>>, <<2>>, <<1, 2>> }

\* The values written through the reference returned by get_mut; they differ
\* from every value a record is constructed with.
WriteValues == { 8, 9 }

HashValues == 0 .. MaxHash

KeySeqs == UNION { [1 .. n -> KeyUniverse] : n \in 0 .. MaxKeys }

\* Payload values of the input records: record number i (0-based) carries
\* the value i, as in the records the tests enumerate; 0 is V::default().
ValueSeqs(n) == { [i \in 1 .. n |-> i - 1] }

\* Option<usize>::None.
None == -1

\* ------------------------------------------------------------------- state

VARIABLES
    hash,      \* the external hash function: KeyUniverse -> usize
    kind,      \* "none" before construction, then "map" or "set"
    keys,      \* the keys of the records handed to the constructor
    vals,      \* the values of the records (empty for a set)
    ret,       \* outcome of the constructor
    table,     \* the Table owned by the returned HashMap/HashSet
    built,     \* the Table as Table::build returned it inside the constructor
    mapping,   \* build's local `mapping`: slot -> input index
    shadow,    \* reference map: input key -> value a get must return
    count,     \* capacity computation alone: num_keys
    cap        \* capacity computation alone: the capacity computed for count

vars == << hash, kind, keys, vals, ret, table, built, mapping, shadow,
           count, cap >>

\* --------------------------------------------------------------- arithmetic

RECURSIVE Pow2(_)
Pow2(e) == IF e <= 0 THEN 1 ELSE 2 * Pow2(e - 1)

\* Number of significant bits of n (0 for n = 0).
RECURSIVE BitLen(_)
BitLen(n) == IF n = 0 THEN 0 ELSE 1 + BitLen(n \div 2)

\* usize::leading_zeros.
leading_zeros(n) == WORD_BITS - BitLen(n)

\* Bitwise AND of two naturals.
RECURSIVE BitAnd(_, _)
BitAnd(a, b) ==
    IF a = 0 \/ b = 0 THEN 0
    ELSE (a % 2) * (b % 2) + 2 * BitAnd(a \div 2, b \div 2)

\* A mutant of ceil_two: rounds up to a power of two without going past n
\* when n already is one (usize::next_power_of_two).
ceil_two_inclusive(n) ==
    IF n = 0 THEN 1 ELSE Pow2(WORD_BITS - leading_zeros(n - 1))

\* A mutant of ceil_two: the shift is one short.
ceil_two_short(n) ==
    IF n = 0 THEN 1 ELSE Pow2(WORD_BITS - leading_zeros(n) - 1)

\* const fn ceil_two(n) = 1 << (WORD_BITS - n.leading_zeros()).
ceil_two(n) == Pow2(WORD_BITS - leading_zeros(n))

\* (num_keys as f64 / MAX_LOAD_FACTOR) as usize: the quotient truncated
\* toward zero.
load_quotient(num_keys) ==
    (num_keys * MAX_LOAD_FACTOR_DEN) \div MAX_LOAD_FACTOR_NUM

\* let capacity = ceil_two((num_keys as f64 / MAX_LOAD_FACTOR) as usize).
capacity(num_keys) == ceil_two(load_quotient(num_keys))

\* ------------------------------------------------------------------- nodes

MapNode_new(ptr, len) == [some |-> TRUE, ptr |-> ptr, len |-> len, val |-> 0]

SetNode_new(ptr, len) == [some |-> TRUE, ptr |-> ptr, len |-> len]

\* Option<N>::None for either node type: `some` tells it from Some(node),
\* and the other fields are never read.
MapNode_none == [some |-> FALSE, ptr |-> 0, len |-> 0, val |-> 0]

SetNode_none == [some |-> FALSE, ptr |-> 0, len |-> 0]

Node_none(k) == IF k = "map" THEN MapNode_none ELSE SetNode_none

\* N::new for the node type of the adapter.
Node_new(k, ptr, len) ==
    IF k = "map" THEN MapNode_new(ptr, len) ELSE SetNode_new(ptr, len)

\* ------------------------------------------------------------ Table::build

\* hash_key(k), as the usize the engine masks.
hash_key(h, k) == h[k]

\* A mutant of insert_probe: the probe advances two slots at a time.
RECURSIVE insert_probe_stride2(_, _, _, _)
insert_probe_stride2(m, pos, capacity_mask, steps) ==
    IF m[pos] = None THEN pos
    ELSE IF steps >= capacity_mask THEN None
    ELSE insert_probe_stride2(m, BitAnd(pos + 2, capacity_mask), capacity_mask,
                              steps + 1)

\* The insertion probe of build: the first free slot from pos on, or None
\* when the while loop would never leave (every slot is taken).
RECURSIVE insert_probe(_, _, _, _)
insert_probe(m, pos, capacity_mask, steps) ==
    IF m[pos] = None THEN pos
    ELSE IF steps >= capacity_mask THEN None
    ELSE insert_probe(m, BitAnd(pos + 1, capacity_mask), capacity_mask, steps + 1)

\* The first loop of build, from input index i on (1-based position in the
\* sequence; the index stored in the slot is the source's 0-based one).
RECURSIVE build_mapping_from(_, _, _, _, _)
build_mapping_from(ks, h, capacity_mask, i, m) ==
    IF i > Len(ks) THEN [halts |-> TRUE, mapping |-> m]
    ELSE LET pos == insert_probe(m, BitAnd(hash_key(h, ks[i]), capacity_mask),
                                 capacity_mask, 0)
         IN  IF pos = None THEN [halts |-> FALSE, mapping |-> m]
             ELSE build_mapping_from(ks, h, capacity_mask, i + 1,
                                     [m EXCEPT ![pos] = i - 1])

build_mapping(ks, h) ==
    LET c == capacity(Len(ks))
    IN  build_mapping_from(ks, h, c - 1, 1, [p \in 0 .. c - 1 |-> None])

\* A mutant of build_nodes_from: the key's bytes go to the head of the buffer
\* instead of its end.
RECURSIVE build_nodes_prepend(_, _, _, _, _, _)
build_nodes_prepend(ks, k, m, i, nodes, bytes) ==
    IF i \notin DOMAIN m THEN [nodes |-> nodes, bytes |-> bytes]
    ELSE IF m[i] = None THEN build_nodes_prepend(ks, k, m, i + 1, nodes, bytes)
    ELSE LET ptr == Len(bytes)
             key == ks[m[i] + 1]
         IN  build_nodes_prepend(ks, k, m, i + 1,
                                 [nodes EXCEPT ![i] = Node_new(k, ptr, Len(key))],
                                 key \o bytes)

\* The second loop of build, from slot i on: nodes and packed key bytes.
RECURSIVE build_nodes_from(_, _, _, _, _, _)
build_nodes_from(ks, k, m, i, nodes, bytes) ==
    IF i \notin DOMAIN m THEN [nodes |-> nodes, bytes |-> bytes]
    ELSE IF m[i] = None THEN build_nodes_from(ks, k, m, i + 1, nodes, bytes)
    ELSE LET ptr == Len(bytes)
             key == ks[m[i] + 1]
         IN  build_nodes_from(ks, k, m, i + 1,
                              [nodes EXCEPT ![i] = Node_new(k, ptr, Len(key))],
                              bytes \o key)

\* A mutant of build_table: num_keys is mapping.len(), not keys.len().
build_table_counts_slots(ks, k, m) ==
    LET nb == build_nodes_from(ks, k, m, 0, [p \in DOMAIN m |-> Node_none(k)], << >>)
    IN  [nodes |-> nb.nodes,
         bytes |-> nb.bytes,
         capacity_mask |-> capacity(Len(ks)) - 1,
         num_keys |-> Cardinality(DOMAIN m)]

\* The rest of build once the first loop has left mapping m: the second
\* loop and the Table returned.
build_table(ks, k, m) ==
    LET nb == build_nodes_from(ks, k, m, 0, [p \in DOMAIN m |-> Node_none(k)], << >>)
    IN  [nodes |-> nb.nodes,
         bytes |-> nb.bytes,
         capacity_mask |-> capacity(Len(ks)) - 1,
         num_keys |-> Len(ks)]

\* Table::<N>::build(keys), for the node type of adapter k, on inputs for
\* which the first loop halts.
build(ks, h, k) == build_table(ks, k, build_mapping(ks, h).mapping)

\* ------------------------------------------------------------ Table lookup

\* A mutant of get_bytes: the slice starts at the head of the buffer.
get_bytes_from_start(t, node) == SubSeq(t.bytes, 1, node.len)

\* &self.bytes[node.ptr()..node.ptr() + node.len()].
get_bytes(t, node) == SubSeq(t.bytes, node.ptr + 1, node.ptr + node.len)

\* A mutant of probe_from: a slot holding another key ends the lookup
\* instead of advancing it.
probe_from_no_advance(t, key, pos, steps) ==
    IF t.nodes[pos].some /\ key = get_bytes(t, t.nodes[pos])
    THEN [halts |-> TRUE, pos |-> pos, inspected |-> steps + 1]
    ELSE [halts |-> TRUE, pos |-> None, inspected |-> steps + 1]

\* The probe loop of get_pos from slot pos on, having inspected `steps`
\* slots already. halts is FALSE when the loop would run forever (every slot
\* is occupied and none holds the key).
RECURSIVE probe_from(_, _, _, _)
probe_from(t, key, pos, steps) ==
    IF ~t.nodes[pos].some
    THEN [halts |-> TRUE, pos |-> None, inspected |-> steps + 1]
    ELSE IF key = get_bytes(t, t.nodes[pos])
    THEN [halts |-> TRUE, pos |-> pos, inspected |-> steps + 1]
    ELSE IF steps >= t.capacity_mask
    THEN [halts |-> FALSE, pos |-> None, inspected |-> steps + 1]
    ELSE probe_from(t, key, BitAnd(pos + 1, t.capacity_mask), steps + 1)

\* get_pos together with the number of slots it inspected.
probe(t, h, key) ==
    probe_from(t, key, BitAnd(hash_key(h, key), t.capacity_mask), 0)

\* Table::get_pos.
get_pos(t, h, key) == probe(t, h, key).pos

\* Table::get / Table::get_mut: the node at the position found, if any.
Table_get(t, h, key) ==
    LET pos == get_pos(t, h, key)
    IN  IF pos = None THEN [some |-> FALSE] ELSE t.nodes[pos]

\* table.nodes[pos].as_mut().unwrap().val = v: the table with the payload of
\* the node in slot pos replaced, everything else as it was.
store_val(t, pos, v) ==
    [nodes |-> [p \in DOMAIN t.nodes |->
                  IF p = pos
                  THEN [some |-> t.nodes[p].some, ptr |-> t.nodes[p].ptr,
                        len |-> t.nodes[p].len, val |-> v]
                  ELSE t.nodes[p]],
     bytes |-> t.bytes,
     capacity_mask |-> t.capacity_mask,
     num_keys |-> t.num_keys]

\* Table::num_keys.
num_keys(t) == t.num_keys

\* ------------------------------------------------------------ constructors

\* No table: the constructor returned Err, or build was never called.
NoTable == [nodes |-> << >>, bytes |-> << >>, capacity_mask |-> 0, num_keys |-> 0]

Failed(r, b, m) == [ret |-> r, table |-> NoTable, built |-> b, mapping |-> m]

\* A mutant of map_scan: the flag of the slot found is never tested.
RECURSIVE map_scan_unflagged(_, _, _, _, _, _, _, _)
map_scan_unflagged(ks, vs, h, b, m, i, t, flags) ==
    IF i > Len(ks) THEN [ret |-> "Ok", table |-> t, built |-> b, mapping |-> m]
    ELSE LET r == probe(t, h, ks[i])
         IN  IF ~r.halts THEN Failed("Diverges", b, m)
             ELSE IF r.pos = None THEN Failed("Panic", b, m)
             ELSE map_scan_unflagged(ks, vs, h, b, m, i + 1,
                                     store_val(t, r.pos, vs[i]),
                                     [flags EXCEPT ![r.pos] = TRUE])

\* The duplicate scan of HashMap::new from record i on: look the key up,
\* fail on a slot already flagged, else store the value and flag the slot.
RECURSIVE map_scan(_, _, _, _, _, _, _, _)
map_scan(ks, vs, h, b, m, i, t, flags) ==
    IF i > Len(ks) THEN [ret |-> "Ok", table |-> t, built |-> b, mapping |-> m]
    ELSE LET r == probe(t, h, ks[i])
         IN  IF ~r.halts THEN Failed("Diverges", b, m)
             ELSE IF r.pos = None THEN Failed("Panic", b, m)
             ELSE IF flags[r.pos] THEN Failed("ErrDuplicate", b, m)
             ELSE map_scan(ks, vs, h, b, m, i + 1,
                           store_val(t, r.pos, vs[i]),
                           [flags EXCEPT ![r.pos] = TRUE])

\* The constructor after its emptiness check: Table::build, then the scan.
map_build_scan(ks, vs, h) ==
    LET bm == build_mapping(ks, h)
    IN  IF ~bm.halts THEN Failed("Diverges", NoTable, bm.mapping)
        ELSE LET t == build_table(ks, "map", bm.mapping)
             IN  map_scan(ks, vs, h, t, bm.mapping, 1, t,
                          [p \in DOMAIN t.nodes |-> FALSE])

\* A mutant of HashMap_new: the emptiness check is missing.
HashMap_new_unguarded(ks, vs, h) == map_build_scan(ks, vs, h)

\* HashMap::new(records), records given as their keys and their values.
HashMap_new(ks, vs, h) ==
    IF Len(ks) = 0 THEN Failed("ErrEmpty", NoTable, << >>)
    ELSE map_build_scan(ks, vs, h)

\* A mutant of set_scan: the flag of the slot found is never tested.
RECURSIVE set_scan_unflagged(_, _, _, _, _, _)
set_scan_unflagged(ks, h, t, m, i, flags) ==
    IF i > Len(ks) THEN [ret |-> "Ok", table |-> t, built |-> t, mapping |-> m]
    ELSE LET r == probe(t, h, ks[i])
         IN  IF ~r.halts THEN Failed("Diverges", t, m)
             ELSE IF r.pos = None THEN Failed("Panic", t, m)
             ELSE set_scan_unflagged(ks, h, t, m, i + 1,
                                     [flags EXCEPT ![r.pos] = TRUE])

\* The duplicate scan of HashSet::new from key i on.
RECURSIVE set_scan(_, _, _, _, _, _)
set_scan(ks, h, t, m, i, flags) ==
    IF i > Len(ks) THEN [ret |-> "Ok", table |-> t, built |-> t, mapping |-> m]
    ELSE LET r == probe(t, h, ks[i])
         IN  IF ~r.halts THEN Failed("Diverges", t, m)
             ELSE IF r.pos = None THEN Failed("Panic", t, m)
             ELSE IF flags[r.pos] THEN Failed("ErrDuplicate", t, m)
             ELSE set_scan(ks, h, t, m, i + 1, [flags EXCEPT ![r.pos] = TRUE])

set_build_scan(ks, h) ==
    LET bm == build_mapping(ks, h)
    IN  IF ~bm.halts THEN Failed("Diverges", NoTable, bm.mapping)
        ELSE LET t == build_table(ks, "set", bm.mapping)
             IN  set_scan(ks, h, t, bm.mapping, 1,
                          [p \in DOMAIN t.nodes |-> FALSE])

\* HashSet::new(keys).
HashSet_new(ks, h) ==
    IF Len(ks) = 0 THEN Failed("ErrEmpty", NoTable, << >>)
    ELSE set_build_scan(ks, h)

\* ----------------------------------------------------------------- queries

\* HashMap::contains_key and HashSet::contains: self.table.get(key).is_some().
contains_key(t, h, key) == Table_get(t, h, key).some

\* HashMap::get: self.table.get(key).map(|nd| &nd.val), as a sequence that is
\* empty for Option::None and holds the value for Some.
get(t, h, key) ==
    LET nd == Table_get(t, h, key)
    IN  IF nd.some THEN << nd.val >> ELSE << >>

\* A mutant of get_mut_write: the store goes to the key's home slot rather
\* than to the slot the probe found.
get_mut_write_home(t, h, key, w) ==
    LET pos == get_pos(t, h, key)
    IN  IF pos = None THEN t
        ELSE store_val(t, BitAnd(hash_key(h, key), t.capacity_mask), w)

\* A mutant of get_mut_write: the store replaces the node found by a fresh
\* node carrying the value.
get_mut_write_fresh_node(t, h, key, w) ==
    LET pos == get_pos(t, h, key)
    IN  IF pos = None THEN t
        ELSE [nodes |-> [p \in DOMAIN t.nodes |->
                           IF p = pos
                           THEN [some |-> TRUE, ptr |-> 0, len |-> 0, val |-> w]
                           ELSE t.nodes[p]],
              bytes |-> t.bytes,
              capacity_mask |-> t.capacity_mask,
              num_keys |-> t.num_keys]

\* HashMap::get_mut(key) followed by a store of w through the reference it
\* returned: the table afterwards.
get_mut_write(t, h, key, w) ==
    LET pos == get_pos(t, h, key)
    IN  IF pos = None THEN t ELSE store_val(t, pos, w)

\* HashMap::len / HashSet::len.
len(t) == num_keys(t)

\* HashMap::is_empty / HashSet::is_empty.
is_empty(t) == len(t) = 0

\* --------------------------------------------------------------- reference

Range(s) == { s[i] : i \in DOMAIN s }

\* The finite map the input records denote (the first record of each key).
RefMap(ks, vs) ==
    [k \in Range(ks) |-> vs[CHOOSE i \in DOMAIN ks :
                               ks[i] = k /\ \A j \in DOMAIN ks : ks[j] = k => i <= j]]

\* ------------------------------------------------------------------ actions

Init ==
    /\ hash \in [KeyUniverse -> HashValues]
    /\ kind = "none"
    /\ keys = << >>
    /\ vals = << >>
    /\ ret = "none"
    /\ table = NoTable
    /\ built = NoTable
    /\ mapping = << >>
    /\ shadow = << >>
    /\ count = 0
    /\ cap = 0

\* HashMap::new on records drawn from the input domains.
MapNew ==
    /\ kind = "none"
    /\ \E ks \in KeySeqs : \E vs \in ValueSeqs(Len(ks)) :
       \E r \in { HashMap_new(ks, vs, hash) } :
          /\ kind' = "map"
          /\ keys' = ks
          /\ vals' = vs
          /\ ret' = r.ret
          /\ table' = r.table
          /\ built' = r.built
          /\ mapping' = r.mapping
          /\ shadow' = IF r.ret = "Ok" THEN RefMap(ks, vs) ELSE << >>
    /\ UNCHANGED << hash, count, cap >>

\* HashSet::new on keys drawn from the input domains.
SetNew ==
    /\ kind = "none"
    /\ \E ks \in KeySeqs : \E r \in { HashSet_new(ks, hash) } :
          /\ kind' = "set"
          /\ keys' = ks
          /\ vals' = << >>
          /\ ret' = r.ret
          /\ table' = r.table
          /\ built' = r.built
          /\ mapping' = r.mapping
          /\ shadow' = << >>
    /\ UNCHANGED << hash, count, cap >>

\* The operations that take &self read the table and return; what they
\* return is the value of the operator of the same name on the state.
Get ==
    /\ kind = "map" /\ ret = "Ok"
    /\ \E q \in KeyUniverse : Len(get(table, hash, q)) <= 1
    /\ UNCHANGED vars

ContainsKey ==
    /\ kind = "map" /\ ret = "Ok"
    /\ \E q \in KeyUniverse : contains_key(table, hash, q) \in BOOLEAN
    /\ UNCHANGED vars

MapLen ==
    /\ kind = "map" /\ ret = "Ok"
    /\ len(table) >= 0
    /\ is_empty(table) \in BOOLEAN
    /\ UNCHANGED vars

\* HashMap::get_mut(q) and a store through the reference, if one is returned.
GetMut ==
    /\ kind = "map" /\ ret = "Ok"
    /\ \E q \in KeyUniverse : \E w \in WriteValues :
          /\ table' = get_mut_write(table, hash, q, w)
          /\ shadow' = IF q \in DOMAIN shadow
                       THEN [shadow EXCEPT ![q] = w] ELSE shadow
    /\ UNCHANGED << hash, kind, keys, vals, ret, built, mapping, count, cap >>

SetContains ==
    /\ kind = "set" /\ ret = "Ok"
    /\ \E q \in KeyUniverse : contains_key(table, hash, q) \in BOOLEAN
    /\ UNCHANGED vars

SetLen ==
    /\ kind = "set" /\ ret = "Ok"
    /\ len(table) >= 0
    /\ is_empty(table) \in BOOLEAN
    /\ UNCHANGED vars

Next ==
    \/ MapNew
    \/ SetNew
    \/ Get
    \/ ContainsKey
    \/ MapLen
    \/ GetMut
    \/ SetContains
    \/ SetLen

Spec == Init /\ [][Next]_vars

\* Construction and the operations that take &self, without the writes.
NextConstruct ==
    \/ MapNew
    \/ SetNew
    \/ Get
    \/ ContainsKey
    \/ MapLen
    \/ SetContains
    \/ SetLen

SpecConstruct == Init /\ [][NextConstruct]_vars

\* ------------------------------------------- the capacity computation alone

\* The first two statements of Table::build on a key count taken from
\* 1 .. MaxCount, with no table built: num_keys, then capacity.
InitCapacity ==
    /\ hash = [k \in KeyUniverse |-> 0]
    /\ kind = "none"
    /\ keys = << >>
    /\ vals = << >>
    /\ ret = "none"
    /\ table = NoTable
    /\ built = NoTable
    /\ mapping = << >>
    /\ shadow = << >>
    /\ count \in 1 .. MaxCount
    /\ cap = 0

ComputeCapacity ==
    /\ cap = 0
    /\ cap' = capacity(count)
    /\ UNCHANGED << hash, kind, keys, vals, ret, table, built, mapping, shadow, count >>

NextCapacity == ComputeCapacity

SpecCapacity == InitCapacity /\ [][NextCapacity]_vars

\* ------------------------------------------------- vocabulary of the claims

Distinct(ks) == \A i, j \in DOMAIN ks : ks[i] = ks[j] => i = j

\* The 1-based position of the first record whose key is k.
FirstIndex(ks, k) ==
    CHOOSE i \in DOMAIN ks : ks[i] = k /\ \A j \in DOMAIN ks : ks[j] = k => i <= j

\* The value the input associates with key k.
InputValue(ks, vs, k) == vs[FirstIndex(ks, k)]

Constructed == kind \in { "map", "set" }

\* Table::build ran to completion inside the constructor.
Built == built # NoTable

Slots(t) == DOMAIN t.nodes

Capacity(t) == Cardinality(Slots(t))

\* The slot a key hashes to in a table of capacity c.
Home(k, c) == hash[k] % c

\* The slots of the cyclic probe path from slot a up to and including slot b.
Path(a, b, c) == { (a + d) % c : d \in 0 .. ((b - a + c) % c) }

\* The slot holding input index i (0-based) in build's mapping.
SlotOf(i) == CHOOSE p \in DOMAIN mapping : mapping[p] = i

Collide(k1, k2, c) == k1 # k2 /\ Home(k1, c) = Home(k2, c)

\* ------------------------------------------------------------------ claims

\* C1: HashMap::new on a non-empty sequence of records with pairwise distinct
\* keys succeeds, whatever the hash function, and the map it returns agrees
\* with the finite map the records denote: get(q) is the value the input
\* gives q when q is an input key and None otherwise, and contains_key(q)
\* is true exactly for the input keys.
C1_MapRoundTrip ==
    (kind = "map" /\ keys # << >> /\ Distinct(keys))
        => /\ ret = "Ok"
           /\ \A q \in KeyUniverse :
                 /\ get(table, hash, q) =
                       IF q \in Range(keys)
                       THEN << InputValue(keys, vals, q) >> ELSE << >>
                 /\ contains_key(table, hash, q) <=> q \in Range(keys)

\* A map of three distinct keys, the empty key among them, two of which
\* share a home slot, and an absent key whose home slot is occupied.
C1_Witness ==
    /\ kind = "map" /\ ret = "Ok"
    /\ Len(keys) = 3 /\ Distinct(keys) /\ << >> \in Range(keys)
    /\ \E i, j \in DOMAIN keys : Collide(keys[i], keys[j], Capacity(table))
    /\ \E q \in KeyUniverse \ Range(keys) :
          /\ table.nodes[Home(q, Capacity(table))].some
          /\ get(table, hash, q) = << >>
    /\ \A k \in Range(keys) : get(table, hash, k) = << InputValue(keys, vals, k) >>

\* C2: HashMap::new and HashSet::new on an input in which two records have
\* byte-equal keys, at any two positions and whatever the hash function,
\* return the duplicate-key error and no map or set.
C2_DuplicateRejected ==
    (Constructed /\ ~Distinct(keys)) => (ret = "ErrDuplicate" /\ table = NoTable)

\* A rejected input whose equal keys are separated by another key that
\* shares their home slot.
C2_Witness ==
    /\ Constructed /\ ret = "ErrDuplicate" /\ table = NoTable
    /\ \E i, j \in DOMAIN keys :
          /\ i + 1 < j
          /\ keys[i] = keys[j]
          /\ Collide(keys[i], keys[i + 1], Capacity(built))

\* C3: HashMap::new and HashSet::new on zero records return the empty-input
\* error, and Table::build is not called: no mapping and no table exist, so
\* no capacity is computed for num_keys = 0.
C3_EmptyRejected ==
    (Constructed /\ keys = << >>)
        => (ret = "ErrEmpty" /\ table = NoTable /\ built = NoTable /\ mapping = << >>)

\* A constructor has returned on an empty input.
C3_Witness == Constructed /\ keys = << >> /\ ret = "ErrEmpty"

\* C4: on a constructed HashMap, after any sequence of writes through
\* get_mut, get(k) returns for every input key k the value last written to
\* k, or the value of its record if k was never written: a write to one key
\* leaves the value of every other key as it was.
C4_MutationIsolation ==
    (kind = "map" /\ ret = "Ok")
        => /\ DOMAIN shadow = Range(keys)
           /\ \A k \in Range(keys) : get(table, hash, k) = << shadow[k] >>

\* Two keys share a home slot; one was written twice, last with 8, the
\* other still holds the value of its record.
C4_Witness ==
    /\ kind = "map" /\ ret = "Ok"
    /\ \E k1, k2 \in Range(keys) :
          /\ Collide(k1, k2, Capacity(table))
          /\ shadow[k1] = 8 /\ get(table, hash, k1) = << 8 >>
          /\ shadow[k2] = InputValue(keys, vals, k2)
          /\ get(table, hash, k2) = << InputValue(keys, vals, k2) >>
    /\ \E k3 \in Range(keys) : shadow[k3] = 9

\* C5: HashSet::new follows the discipline of HashMap::new: on the same keys
\* and hash function, with any values, both return the same outcome (so one
\* succeeds exactly when the other does), and on success contains(q) equals
\* contains_key(q) of the map for every query key q, true exactly for the
\* input keys.
C5_SetMatchesMap ==
    kind = "set"
        => \A vs \in ValueSeqs(Len(keys)) :
           \E m \in { HashMap_new(keys, vs, hash) } :
              /\ m.ret = ret
              /\ ret = "Ok"
                    => \A q \in KeyUniverse :
                       \E c \in { contains_key(table, hash, q) } :
                          /\ c <=> contains_key(m.table, hash, q)
                          /\ c <=> q \in Range(keys)

\* A set of three keys, the empty key among them, with a collision and an
\* absent key.
C5_Witness ==
    /\ kind = "set" /\ ret = "Ok" /\ Len(keys) = 3 /\ << >> \in Range(keys)
    /\ \E i, j \in DOMAIN keys : Collide(keys[i], keys[j], Capacity(table))
    /\ \E q \in KeyUniverse : ~contains_key(table, hash, q)

\* C6: after a successful HashMap::new or HashSet::new, len() equals the
\* number of input records/keys, and it still does after any sequence of
\* queries and of writes through get_mut.
C6_LenIsInputCount ==
    (Constructed /\ ret = "Ok") => (len(table) = Len(keys) /\ ~is_empty(table))

\* A map of three records, written to through get_mut, of length 3.
C6_Witness ==
    /\ kind = "map" /\ ret = "Ok" /\ Len(keys) = 3 /\ len(table) = 3
    /\ \E k \in Range(keys) : shadow[k] = 9 /\ get(table, hash, k) = << 9 >>

\* Powers of two, and usize::next_power_of_two: the smallest one >= x.
RECURSIVE IsPowerOfTwo(_)
IsPowerOfTwo(c) == c = 1 \/ (c > 1 /\ c % 2 = 0 /\ IsPowerOfTwo(c \div 2))

NextPowerOfTwo(x) ==
    CHOOSE c \in 1 .. 2 * x :
        IsPowerOfTwo(c) /\ c >= x /\ \A d \in 1 .. c - 1 : IsPowerOfTwo(d) => d < x

\* n / c <= 0.8, in integers.
WithinLoad(n, c) == n * MAX_LOAD_FACTOR_DEN <= c * MAX_LOAD_FACTOR_NUM

\* ceil(n / 0.8), in integers.
CeilQuotient(n) ==
    (n * MAX_LOAD_FACTOR_DEN + MAX_LOAD_FACTOR_NUM - 1) \div MAX_LOAD_FACTOR_NUM

\* C7: for n >= 1 keys the capacity Table::build computes is a power of two,
\* the smallest one c with n / c <= 0.8, and equals
\* next_power_of_two(ceil(n / 0.8)); n = 5 gives 8 and n = 7 gives 16.
C7_Capacity ==
    cap # 0
        => /\ IsPowerOfTwo(cap)
           /\ WithinLoad(count, cap)
           /\ \A c \in 1 .. cap - 1 : IsPowerOfTwo(c) => ~WithinLoad(count, c)
           /\ cap = NextPowerOfTwo(CeilQuotient(count))
           /\ count = 5 => cap = 8
           /\ count = 7 => cap = 16

\* The capacity for 7 keys has been computed: 8 slots would hold them, but
\* at a load above 0.8.
C7_Witness == count = 7 /\ cap = 16 /\ ~WithinLoad(7, 8)

\* C8: on the table Table::build returns for any key sequence, duplicates
\* or not, get_pos of every input key finds a position, and it is the slot
\* build gave to the first input index holding that key: a repeated key
\* resolves to the slot of its first occurrence, distinct keys to distinct
\* slots.
C8_FirstOccurrenceSlot ==
    (Constructed /\ keys # << >>)
        => /\ Built
           /\ \A i \in DOMAIN keys :
                 \E r \in { probe(built, hash, keys[i]) } :
                     /\ r.halts
                     /\ r.pos # None
                     /\ mapping[r.pos] = FirstIndex(keys, keys[i]) - 1
           /\ Cardinality({ get_pos(built, hash, k) : k \in Range(keys) })
                 = Cardinality(Range(keys))

\* A key occurs twice with a colliding key between its occurrences, and its
\* lookup lands on the slot of its first occurrence, which is not the slot
\* of the second.
C8_Witness ==
    /\ Constructed /\ Built
    /\ \E i, j \in DOMAIN keys :
          /\ i + 1 < j /\ keys[i] = keys[j]
          /\ Collide(keys[i], keys[i + 1], Capacity(built))
          /\ mapping[get_pos(built, hash, keys[j])] = i - 1
          /\ SlotOf(j - 1) # get_pos(built, hash, keys[j])

EmptySlots(t) == { p \in Slots(t) : ~t.nodes[p].some }

\* C9: build halts on every non-empty input and leaves at least
\* capacity * (1 - 0.8) slots empty, hence at least one; get_pos of any key,
\* present or absent, halts having inspected at most capacity slots.
C9_ProbesTerminate ==
    (Constructed /\ keys # << >>)
        => /\ ret # "Diverges"
           /\ Built
           /\ \E c \in { Capacity(built) } :
               \E e \in { Cardinality(EmptySlots(built)) } :
                 /\ e * MAX_LOAD_FACTOR_DEN
                       >= c * (MAX_LOAD_FACTOR_DEN - MAX_LOAD_FACTOR_NUM)
                 /\ e >= 1
                 /\ \A q \in KeyUniverse :
                       \E r \in { probe(built, hash, q) } :
                          r.halts /\ r.inspected <= c

\* A table of capacity 4 holding three keys in one cluster, and an absent
\* key whose lookup walks the whole cluster to the only empty slot, all
\* four slots inspected.
C9_Witness ==
    /\ Constructed /\ Built /\ Capacity(built) = 4
    /\ Cardinality(EmptySlots(built)) = 1
    /\ \E q \in KeyUniverse \ Range(keys) :
          LET r == probe(built, hash, q)
          IN  r.halts /\ r.pos = None /\ r.inspected = 4

\* C10: build places every input index, duplicates included, in the first
\* slot free at its turn on the cyclic probe path from its key's home slot:
\* exactly n slots are occupied, each input index holds exactly one slot,
\* the nodes are the occupied slots, and every slot from a key's home slot
\* up to its own is occupied, those before its own by earlier indices.
C10_LinearProbePlacement ==
    (Constructed /\ keys # << >>)
        => /\ Built
           /\ DOMAIN mapping = Slots(built)
           /\ Cardinality({ p \in DOMAIN mapping : mapping[p] # None }) = Len(keys)
           /\ \A p \in DOMAIN mapping :
                 /\ mapping[p] # None => mapping[p] \in 0 .. Len(keys) - 1
                 /\ built.nodes[p].some <=> mapping[p] # None
           /\ \A i \in DOMAIN keys :
                 /\ Cardinality({ p \in DOMAIN mapping : mapping[p] = i - 1 }) = 1
                 /\ \E s \in { SlotOf(i - 1) } :
                       \A p \in Path(Home(keys[i], Capacity(built)), s, Capacity(built)) :
                          /\ mapping[p] # None
                          /\ p # s => mapping[p] < i - 1

\* Three keys with the last slot as home, one of them given twice: the
\* second and third index wrapped around to slots 0 and 1.
C10_Witness ==
    /\ Constructed /\ Built /\ Len(keys) = 3 /\ ~Distinct(keys)
    /\ \A i \in DOMAIN keys : Home(keys[i], Capacity(built)) = 3
    /\ SlotOf(0) = 3 /\ SlotOf(1) = 0 /\ SlotOf(2) = 1

\* The key build assigned to occupied slot p.
KeyAt(p) == keys[mapping[p] + 1]

\* The occupied slots of build's mapping below slot p.
OccupiedBelow(p) == { s \in DOMAIN mapping : s < p /\ mapping[s] # None }

\* The total length of the keys assigned to the slots of S.
RECURSIVE KeyBytes(_)
KeyBytes(S) ==
    IF S = { } THEN 0
    ELSE LET s == CHOOSE x \in S : TRUE
         IN  Len(KeyAt(s)) + KeyBytes(S \ { s })

\* C11: in the table Table::build returns, for every occupied slot the
\* range ptr .. ptr + len of the byte buffer holds exactly the bytes of the
\* key assigned to the slot; the ranges lie back to back in increasing slot
\* order (ptr is the total length of the keys in the occupied slots below,
\* and the buffer ends with the last range), ptr + len never exceeds the
\* buffer length, and an empty key has len = 0 and a ptr within 0 .. length.
C11_PackedBytes ==
    (Constructed /\ keys # << >>)
        => /\ Built
           /\ Len(built.bytes) = KeyBytes(DOMAIN mapping \ EmptySlots(built))
           /\ \A p \in Slots(built) \ EmptySlots(built) :
                 \E nd \in { built.nodes[p] } :
                    /\ mapping[p] # None
                    /\ nd.len = Len(KeyAt(p))
                    /\ nd.ptr = KeyBytes(OccupiedBelow(p))
                    /\ nd.ptr >= 0
                    /\ nd.ptr + nd.len <= Len(built.bytes)
                    /\ get_bytes(built, nd) = KeyAt(p)
                    /\ KeyAt(p) = << >> => (nd.len = 0 /\ nd.ptr \in 0 .. Len(built.bytes))

\* Three keys packed in slot order, which is not input order: the empty key
\* sits between two others as a zero-length entry at a non-zero offset, and
\* a repeated key has its bytes in the buffer twice.
C11_Witness ==
    /\ Constructed /\ Built /\ Len(keys) = 3 /\ ~Distinct(keys)
    /\ \E p \in Slots(built) :
          /\ built.nodes[p].some /\ KeyAt(p) = << >>
          /\ built.nodes[p].ptr > 0 /\ built.nodes[p].ptr < Len(built.bytes)
          /\ built.nodes[p].len = 0
    /\ \E p, s \in Slots(built) :
          /\ p < s /\ built.nodes[p].some /\ built.nodes[s].some
          /\ mapping[p] > mapping[s]
          /\ built.nodes[s].ptr = built.nodes[p].ptr + built.nodes[p].len
    /\ Len(built.bytes) = 2

\* The shape of a table: everything but the payload values.
Shape(t) ==
    [nodes |-> [p \in DOMAIN t.nodes |->
                  [some |-> t.nodes[p].some, ptr |-> t.nodes[p].ptr,
                   len |-> t.nodes[p].len]],
     bytes |-> t.bytes,
     capacity_mask |-> t.capacity_mask,
     num_keys |-> t.num_keys]

\* C12: after a successful construction no operation changes the shape of
\* the table: every step leaves each slot's occupancy, ptr and len, the byte
\* buffer, capacity_mask and num_keys as they were; a step that changes the
\* table at all changes only the payload of the one slot get_pos finds for
\* some present key; a set's table never changes; and get_mut on an absent
\* key, with any value stored, leaves the table as it is. (A step that
\* changes no variable changes no table, so only the others are examined.)
C12_ShapeFrozen ==
    [][ (Constructed /\ ret = "Ok" /\ vars' # vars)
            => /\ Shape(table') = Shape(table)
               /\ kind = "set" => table' = table
               /\ table' # table
                     => \E q \in KeyUniverse : \E pos \in { get_pos(table, hash, q) } :
                           /\ pos # None
                           /\ \A p \in Slots(table) \ { pos } :
                                 table'.nodes[p] = table.nodes[p]
               /\ \A q \in KeyUniverse :
                     get_pos(table, hash, q) = None
                         => \A w \in WriteValues :
                               get_mut_write(table, hash, q, w) = table ]_vars

\* A map of three keys, two of them sharing a home slot, after a write: one
\* slot holds the written value 8, another still the value of its record,
\* the shape is the one build returned, and an absent key whose home slot is
\* occupied has nothing to write to.
C12_Witness ==
    /\ kind = "map" /\ ret = "Ok" /\ Len(keys) = 3
    /\ Shape(table) = Shape(built)
    /\ \E i, j \in DOMAIN keys : Collide(keys[i], keys[j], Capacity(table))
    /\ \E p, s \in Slots(table) :
          /\ table.nodes[p].some /\ table.nodes[p].val = 8
          /\ table.nodes[s].some /\ table.nodes[s].val = mapping[s]
          /\ table.nodes[s].val > 0
    /\ \E q \in KeyUniverse \ Range(keys) :
          /\ table.nodes[Home(q, Capacity(table))].some
          /\ get_mut_write(table, hash, q, 9) = table

====
